---- MODULE Spec2Model ----
(***************************************************************************)
(* Model of src/content.js: the GitHubPRFilter content script.             *)
(*                                                                         *)
(* Strings are sequences of lexemes (a lexeme is one character, or a run   *)
(* of characters that the code never looks inside).  JavaScript values     *)
(* are tagged records [t, v]; the DOM is reduced to the three mount points *)
(* the script queries and the elements it injects.                         *)
(***************************************************************************)
EXTENDS Integers, Sequences, FiniteSets, TLC

VARIABLES
    filters,        \* this.filters (a JavaScript value)
    retryAttempts,  \* this.retryAttempts
    stored,         \* localStorage entry under the storage key
    path,           \* window.location.pathname
    container,      \* the .subnav-search element: present?, injected buttons
    dropdown,       \* the #filters-select-menu .SelectMenu-list element
    timers,         \* number of pending setTimeout callbacks
    rechecks,       \* setTimeout callbacks run since the last trigger (history,
                    \* counted up to MaxRechecks)
    ev              \* what the last handler did (history, for the properties)

vars == <<filters, retryAttempts, stored, path, container, dropdown, timers,
          rechecks, ev>>

----------------------------------------------------------------------------
(* Constants of the script *)

MAX_RETRY_ATTEMPTS == 3

(* Bounds of the model *)
\* filters are added while the list is shorter than this
MaxFilters == 1
\* the same, where the add flow is looked at on its own
MaxAddFilters == 3
\* pending timer callbacks, and buttons in one search bar
MaxTimers == 2
MaxButtons == 2
\* callbacks are counted up to this: more than one trigger's chain and the
\* stale callbacks together can run
MaxRechecks == MAX_RETRY_ATTEMPTS + MaxTimers + 1

----------------------------------------------------------------------------
(* JavaScript values *)

JNull == [t |-> "null", v |-> <<>>]
JUndefined == [t |-> "undefined", v |-> <<>>]
JNum(d) == [t |-> "num", v |-> <<d>>]
JStr(s) == [t |-> "str", v |-> s]
JArr(xs) == [t |-> "arr", v |-> xs]
\* an object is the sequence of its members, in insertion order
JObj(ms) == [t |-> "obj", v |-> ms]
Member(k, x) == [k |-> k, val |-> x]

\* { label, query } (line 122)
NewFilter(label, query) ==
    JObj(<<Member(<<"label">>, JStr(label)), Member(<<"query">>, JStr(query))>>)

\* property read obj.key: undefined when the object has no such member
GetProp(obj, key) ==
    IF obj.t = "obj" /\ \E i \in 1..Len(obj.v) : obj.v[i].k = key
    THEN obj.v[CHOOSE i \in 1..Len(obj.v) : obj.v[i].k = key].val
    ELSE JUndefined

----------------------------------------------------------------------------
(* JSON.stringify and JSON.parse over lexeme sequences *)

RECURSIVE QuoteChars(_)
\* the characters of a string literal: quote and backslash are escaped
QuoteCharsNoEscape(s) == s
QuoteChars(s) ==
    IF s = <<>> THEN <<>>
    ELSE IF Head(s) = "\"" THEN <<"\\", "\"">> \o QuoteChars(Tail(s))
    ELSE IF Head(s) = "\\" THEN <<"\\", "\\">> \o QuoteChars(Tail(s))
    ELSE <<Head(s)>> \o QuoteChars(Tail(s))

Quote(s) == <<"\"">> \o QuoteChars(s) \o <<"\"">>

RECURSIVE Stringify(_), StringifyElems(_), StringifyMembers(_, _)
\* JSON.stringify(value)
Stringify(x) ==
    CASE x.t = "null" -> <<"null">>
      [] x.t = "undefined" -> <<"null">>    \* as an array element
      [] x.t = "num" -> x.v
      [] x.t = "str" -> Quote(x.v)
      [] x.t = "arr" -> <<"[">> \o StringifyElems(x.v) \o <<"]">>
      [] x.t = "obj" -> <<"{">> \o StringifyMembers(x.v, TRUE) \o <<"}">>

StringifyElems(xs) ==
    IF xs = <<>> THEN <<>>
    ELSE Stringify(Head(xs))
         \o (IF Len(xs) > 1 THEN <<",">> ELSE <<>>)
         \o StringifyElems(Tail(xs))

\* members whose value is undefined are left out
StringifyMembers(ms, first) ==
    IF ms = <<>> THEN <<>>
    ELSE IF Head(ms).val.t = "undefined" THEN StringifyMembers(Tail(ms), first)
    ELSE (IF first THEN <<>> ELSE <<",">>)
         \o Quote(Head(ms).k) \o <<":">> \o Stringify(Head(ms).val)
         \o StringifyMembers(Tail(ms), FALSE)

ParseFail == [ok |-> FALSE, val |-> JNull, rest |-> <<>>]
ParseOk(x, rest) == [ok |-> TRUE, val |-> x, rest |-> rest]

RECURSIVE ParseChars(_, _)
\* the characters of a string literal after its opening quote; the result's
\* val holds the characters as a str value
ParseChars(s, acc) ==
    IF s = <<>> THEN ParseFail
    ELSE IF Head(s) = "\"" THEN ParseOk(JStr(acc), Tail(s))
    ELSE IF Head(s) = "\\"
         THEN IF Len(s) >= 2 /\ s[2] \in {"\"", "\\"}
              THEN ParseChars(Tail(Tail(s)), Append(acc, s[2]))
              ELSE ParseFail
    ELSE ParseChars(Tail(s), Append(acc, Head(s)))

\* obj[key] = x while parsing: a repeated key keeps its first position
SetMember(ms, k, x) ==
    IF \E i \in 1..Len(ms) : ms[i].k = k
    THEN [i \in 1..Len(ms) |-> IF ms[i].k = k THEN Member(k, x) ELSE ms[i]]
    ELSE Append(ms, Member(k, x))

RECURSIVE ParseValue(_), ParseElems(_, _), ParseMembers(_, _)
ParseValue(s) ==
    IF s = <<>> THEN ParseFail
    ELSE CASE Head(s) = "null" -> ParseOk(JNull, Tail(s))
           [] Head(s) = "0" -> ParseOk(JNum("0"), Tail(s))
           [] Head(s) = "\"" -> ParseChars(Tail(s), <<>>)
           [] Head(s) = "[" ->
                IF Len(s) >= 2 /\ s[2] = "]"
                THEN ParseOk(JArr(<<>>), Tail(Tail(s)))
                ELSE ParseElems(Tail(s), <<>>)
           [] Head(s) = "{" ->
                IF Len(s) >= 2 /\ s[2] = "}"
                THEN ParseOk(JObj(<<>>), Tail(Tail(s)))
                ELSE ParseMembers(Tail(s), <<>>)
           [] OTHER -> ParseFail

ParseElems(s, acc) ==
    LET r == ParseValue(s) IN
    IF ~r.ok \/ r.rest = <<>> THEN ParseFail
    ELSE IF Head(r.rest) = "," THEN ParseElems(Tail(r.rest), Append(acc, r.val))
    ELSE IF Head(r.rest) = "]" THEN ParseOk(JArr(Append(acc, r.val)), Tail(r.rest))
    ELSE ParseFail

ParseMembers(s, acc) ==
    IF s = <<>> \/ Head(s) # "\"" THEN ParseFail
    ELSE LET k == ParseChars(Tail(s), <<>>) IN
         IF ~k.ok \/ k.rest = <<>> \/ Head(k.rest) # ":" THEN ParseFail
         ELSE LET r == ParseValue(Tail(k.rest)) IN
              IF ~r.ok \/ r.rest = <<>> THEN ParseFail
              ELSE IF Head(r.rest) = ","
                   THEN ParseMembers(Tail(r.rest), SetMember(acc, k.val.v, r.val))
              ELSE IF Head(r.rest) = "}"
                   THEN ParseOk(JObj(SetMember(acc, k.val.v, r.val)), Tail(r.rest))
              ELSE ParseFail

\* JSON.parse(text): threw is TRUE for a SyntaxError
JsonParse(text) ==
    LET r == ParseValue(text) IN
    IF r.ok /\ r.rest = <<>> THEN [threw |-> FALSE, val |-> r.val]
    ELSE [threw |-> TRUE, val |-> JNull]

----------------------------------------------------------------------------
(* Strings *)

Reverse(xs) == [i \in 1..Len(xs) |-> xs[Len(xs) + 1 - i]]

\* s.includes(sub)
Includes(s, sub) ==
    \E i \in 1..(Len(s) - Len(sub) + 1) : SubSeq(s, i, i + Len(sub) - 1) = sub

RECURSIVE Split(_, _, _)
\* s.split(sep) for a one-character separator; cur is the piece being read
Split(s, sep, cur) ==
    IF s = <<>> THEN <<cur>>
    ELSE IF Head(s) = sep THEN <<cur>> \o Split(Tail(s), sep, <<>>)
    ELSE Split(Tail(s), sep, Append(cur, Head(s)))

RECURSIVE Join(_, _)
\* pieces.join(sep)
Join(pieces, sep) ==
    IF pieces = <<>> THEN <<>>
    ELSE IF Len(pieces) = 1 THEN Head(pieces)
    ELSE Head(pieces) \o <<sep>> \o Join(Tail(pieces), sep)

\* xs.slice(from, to), zero-based, end exclusive
Slice(xs, from, to) ==
    SubSeq(xs, from + 1, IF to < Len(xs) THEN to ELSE Len(xs))

RECURSIVE ToStr(_), ToStrElems(_)
\* String(x), as a template literal converts its holes
ToStr(x) ==
    CASE x.t = "str" -> x.v
      [] x.t = "num" -> x.v
      [] x.t = "null" -> <<"null">>
      [] x.t = "undefined" -> <<"undefined">>
      [] x.t = "obj" -> <<"[object Object]">>
      [] x.t = "arr" -> ToStrElems(x.v)

ToStrElems(xs) ==
    IF xs = <<>> THEN <<>>
    ELSE (IF Head(xs).t \in {"null", "undefined"} THEN <<>> ELSE ToStr(Head(xs)))
         \o (IF Len(xs) > 1 THEN <<",">> ELSE <<>>)
         \o ToStrElems(Tail(xs))

\* characters encodeURIComponent leaves alone are the unreserved ones; of the
\* model's alphabet these are escaped
Escaped(c) ==
    CASE c = ":" -> "%3A"
      [] c = "\"" -> "%22"
      [] c = "\\" -> "%5C"
      [] c = "," -> "%2C"
      [] c = "[object Object]" -> "%5Bobject%20Object%5D"
      [] c = "<i class=custom-item>" -> "%3Ci%20class%3Dcustom-item%3E"
      [] c = "</i>" -> "%3C%2Fi%3E"
      [] OTHER -> c

EncodeURIComponent(s) == [i \in 1..Len(s) |-> Escaped(s[i])]

----------------------------------------------------------------------------
(* Location *)

PathPulls == <<"/", "o", "/", "r", "/", "p", "u", "l", "l", "s">>
PathIssues == <<"/", "o", "/", "r", "/", "i", "s", "s", "u", "e", "s">>
PathArchive == PathPulls \o <<"-", "a", "r", "c", "h", "i", "v", "e">>
Paths == {PathPulls, PathIssues, PathArchive}

\* mutant: a path segment equal to "pulls" is looked for
isPullRequestPageSegment(p) ==
    \E i \in 1..Len(Split(p, "/", <<>>)) :
        Split(p, "/", <<>>)[i] = <<"p", "u", "l", "l", "s">>

\* window.location.pathname.includes("/pulls")
isPullRequestPage(p) == Includes(p, <<"/", "p", "u", "l", "l", "s">>)

\* window.location.pathname.split("/").slice(1, 3).join("/")
getRepoPath(p) == Join(Slice(Split(p, "/", <<>>), 1, 3), "/")

----------------------------------------------------------------------------
(* HTML: elements, and the parse that assigning innerHTML performs *)

\* const x = ...; the value is computed once and named in what follows
Once(x, Rest(_)) == CHOOSE y \in {Rest(v) : v \in {x}} : TRUE

\* an element: its tag, whether it carries the class custom-item, its href
\* attribute, its textContent and its child elements
Elem(tag, custom, href, text, kids) ==
    [tag |-> tag, custom |-> custom, href |-> href, text |-> text, kids |-> kids]

\* lexemes of the markup
AOpen == "<a class=SelectMenu-item custom-item href="
AOpenEnd == " data-turbo-frame=repo-content-turbo-frame>"
AClose == "</a>"
SvgCheck == "<svg class=octicon-check>...</svg>"
IOpenCustom == "<i class=custom-item>"
IClose == "</i>"

RECURSIVE ParseContent(_, _, _, _)
\* the content of an open element up to its end tag: child elements and
\* text.  An end tag of an element that is not open is ignored; the end of
\* the input and the end tag of the parent close the open element.
ParseContent(s, tag, kids, text) ==
    IF s = <<>> THEN [kids |-> kids, text |-> text, rest |-> <<>>]
    ELSE LET h == Head(s) IN
         CASE h = AClose ->
                IF tag = "a" THEN [kids |-> kids, text |-> text, rest |-> Tail(s)]
                ELSE [kids |-> kids, text |-> text, rest |-> s]
           [] h = IClose ->
                IF tag = "i" THEN [kids |-> kids, text |-> text, rest |-> Tail(s)]
                ELSE ParseContent(Tail(s), tag, kids, text)
           [] h = IOpenCustom ->
                Once(ParseContent(Tail(s), "i", <<>>, <<>>), LAMBDA r :
                    ParseContent(r.rest, tag,
                                 Append(kids, Elem("i", TRUE, <<>>, r.text, r.kids)),
                                 text \o r.text))
           [] h = SvgCheck ->
                ParseContent(Tail(s), tag,
                             Append(kids, Elem("svg", FALSE, <<>>, <<>>, <<>>)), text)
           [] OTHER -> ParseContent(Tail(s), tag, kids, Append(text, h))

RECURSIVE AttrValue(_, _)
\* a double-quoted attribute value after its opening quote
AttrValue(s, acc) ==
    IF s = <<>> THEN [val |-> acc, rest |-> <<>>]
    ELSE IF Head(s) = "\"" THEN [val |-> acc, rest |-> Tail(s)]
    ELSE AttrValue(Tail(s), Append(acc, Head(s)))

\* div.innerHTML = html.trim(); return div.firstChild -- for markup that
\* starts with the item's <a ...> tag (white space between tags is left out)
createElementFromHtml(html) ==
    Once(AttrValue(Tail(Tail(html)), <<>>), LAMBDA a :
        Once(ParseContent(IF a.rest # <<>> /\ Head(a.rest) = AOpenEnd
                           THEN Tail(a.rest) ELSE a.rest,
                           "a", <<>>, <<>>), LAMBDA c :
            Elem("a", TRUE, a.val, c.text, c.kids)))

\* the markup is the template with the encoded query and the label put in
createFilterItem(label, query, repoPath) ==
    createElementFromHtml(
        <<AOpen, "\"", "/">> \o repoPath \o <<"/issues?q=">>
            \o EncodeURIComponent(ToStr(query))
            \o <<"\"", AOpenEnd, SvgCheck>> \o ToStr(label) \o <<AClose>>)

\* an item of the host page's own menu
HostItem == Elem("a", FALSE, <<"/host">>, <<"Open issues">>, <<>>)

RECURSIVE HasCustom(_)
\* some element of the forest carries the class custom-item
HasCustom(elems) ==
    \E i \in 1..Len(elems) : elems[i].custom \/ HasCustom(elems[i].kids)

RECURSIVE clearOldItems(_)
\* querySelectorAll(".custom-item") lists the matching descendants in document
\* order; removeChild removes a child of the list and throws NotFoundError for
\* an element whose parent is another element.  kids: the children left,
\* threw: the loop was ended by the exception.
clearOldItems(kids) ==
    IF kids = <<>> THEN [kids |-> <<>>, threw |-> FALSE]
    ELSE LET k == Head(kids)
             keep == IF k.custom THEN <<>> ELSE <<k>>
         IN  IF HasCustom(k.kids)
             THEN [kids |-> keep \o Tail(kids), threw |-> TRUE]
             ELSE Once(clearOldItems(Tail(kids)), LAMBDA r :
                      [kids |-> keep \o r.kids, threw |-> r.threw])

----------------------------------------------------------------------------
(* Renderer *)

RECURSIVE PrependAll(_, _, _)
\* forEach(filter => filtersDropdown.prepend(createFilterItem(...))): reading
\* a property of null or undefined throws and ends the loop
PrependAll(xs, kids, repoPath) ==
    IF xs = <<>> THEN [kids |-> kids, threw |-> FALSE]
    ELSE IF Head(xs).t \in {"null", "undefined"} THEN [kids |-> kids, threw |-> TRUE]
    ELSE PrependAll(Tail(xs),
                    <<createFilterItem(GetProp(Head(xs), <<"label">>),
                                       GetProp(Head(xs), <<"query">>), repoPath)>> \o kids,
                    repoPath)

\* mutant: the filters are inserted in stored order
InsertFiltersNoReverse(f, kids, repoPath) ==
    IF f.t = "arr" THEN PrependAll(f.v, kids, repoPath)
    ELSE [kids |-> kids, threw |-> f.t \in {"null", "undefined"}]

\* lines 200-204: if (this.filters.length > 0) this.filters.slice().reverse()...
InsertFilters(f, kids, repoPath) ==
    CASE f.t \in {"null", "undefined"} -> [kids |-> kids, threw |-> TRUE]
      [] f.t = "arr" -> PrependAll(Reverse(f.v), kids, repoPath)
      [] f.t = "str" -> [kids |-> kids, threw |-> Len(f.v) > 0]
      [] OTHER -> [kids |-> kids, threw |-> FALSE]

\* mutant: both mount points are looked for before anything is removed
initializeDropdownCheckFirst(f, c, d, p) ==
    IF ~d.present \/ ~c.present THEN [container |-> c, dropdown |-> d, threw |-> FALSE]
    ELSE Once(clearOldItems(d.kids), LAMBDA cl :
         IF cl.threw
         THEN [container |-> c, dropdown |-> [d EXCEPT !.kids = cl.kids],
               threw |-> TRUE]
         ELSE Once(InsertFilters(f, cl.kids, getRepoPath(p)), LAMBDA ins :
              IF ins.threw
              THEN [container |-> c, dropdown |-> [d EXCEPT !.kids = ins.kids],
                    threw |-> TRUE]
              ELSE [container |-> [c EXCEPT !.buttons = @ + 1],
                    dropdown |-> [d EXCEPT !.kids = ins.kids], threw |-> FALSE]))

\* initializeDropdown(): c, d the two mount points; the result holds them
\* after the call and whether an exception left it
initializeDropdown(f, c, d, p) ==
    IF ~d.present THEN [container |-> c, dropdown |-> d, threw |-> FALSE]
    ELSE Once(clearOldItems(d.kids), LAMBDA cl :
         IF cl.threw \/ ~c.present
         THEN [container |-> c, dropdown |-> [d EXCEPT !.kids = cl.kids],
               threw |-> cl.threw]
         ELSE Once(InsertFilters(f, cl.kids, getRepoPath(p)), LAMBDA ins :
              IF ins.threw
              THEN [container |-> c, dropdown |-> [d EXCEPT !.kids = ins.kids],
                    threw |-> TRUE]
              ELSE [container |-> [c EXCEPT !.buttons = @ + 1],
                    dropdown |-> [d EXCEPT !.kids = ins.kids], threw |-> FALSE]))

----------------------------------------------------------------------------
(* Persistence *)

Missing == [has |-> FALSE, text |-> <<>>]
Stored(text) == [has |-> TRUE, text |-> text]

\* mutant: no try/catch around the read and the parse
loadFiltersNoCatch(st, readFails) ==
    IF readFails THEN [val |-> JUndefined, log |-> "none", threw |-> TRUE]
    ELSE IF ~st.has \/ st.text = <<>>
         THEN [val |-> JArr(<<>>), log |-> "none", threw |-> FALSE]
    ELSE LET r == JsonParse(st.text) IN
         [val |-> r.val, log |-> "none", threw |-> r.threw]

\* loadFilters(): readFails is localStorage.getItem throwing; threw is an
\* exception leaving loadFilters
loadFilters(st, readFails) ==
    IF readFails THEN [val |-> JArr(<<>>), log |-> "error-load", threw |-> FALSE]
    ELSE IF ~st.has \/ st.text = <<>>
         THEN [val |-> JArr(<<>>), log |-> "none", threw |-> FALSE]
    ELSE LET r == JsonParse(st.text) IN
         IF r.threw THEN [val |-> JArr(<<>>), log |-> "error-load", threw |-> FALSE]
         ELSE [val |-> r.val, log |-> "none", threw |-> FALSE]

\* mutant: no try/catch around the write
saveFiltersNoCatch(f, st, writeFails) ==
    IF writeFails THEN [stored |-> st, log |-> "none", threw |-> TRUE]
    ELSE [stored |-> Stored(Stringify(f)), log |-> "none", threw |-> FALSE]

\* saveFilters(): writeFails is localStorage.setItem throwing (the entry is
\* then as it was); threw is an exception leaving saveFilters
saveFilters(f, st, writeFails) ==
    IF writeFails THEN [stored |-> st, log |-> "error-save", threw |-> FALSE]
    ELSE [stored |-> Stored(Stringify(f)), log |-> "none", threw |-> FALSE]

----------------------------------------------------------------------------
(* Navigation watcher *)

\* mutant: the counter is not compared with the maximum
retryInitializationUnbounded(attempts, t) ==
    [retryAttempts |-> attempts + 1, timers |-> t + 1, log |-> {}]

\* mutant: the counter is not incremented
retryInitializationNoCount(attempts, t) ==
    IF attempts >= MAX_RETRY_ATTEMPTS
    THEN [retryAttempts |-> attempts, timers |-> t, log |-> {"warn"}]
    ELSE [retryAttempts |-> attempts, timers |-> t + 1, log |-> {}]

\* retryInitialization(): t is the number of pending timer callbacks
retryInitialization(attempts, t) ==
    IF attempts >= MAX_RETRY_ATTEMPTS
    THEN [retryAttempts |-> attempts, timers |-> t, log |-> {"warn"}]
    ELSE [retryAttempts |-> attempts + 1, timers |-> t + 1, log |-> {}]

\* mutant: nothing is rendered away from a pull-request listing
RenderOrRetryOnPulls(f, attempts, c, d, t, p) ==
    IF ~isPullRequestPage(p)
    THEN [filters |-> f, retryAttempts |-> attempts, container |-> c,
          dropdown |-> d, timers |-> t, threw |-> FALSE, log |-> {},
          rendered |-> FALSE, store |-> "none"]
    ELSE IF c.present
    THEN Once(initializeDropdown(f, c, d, p), LAMBDA r :
         [filters |-> f, retryAttempts |-> attempts, container |-> r.container,
          dropdown |-> r.dropdown, timers |-> t, threw |-> r.threw, log |-> {},
          rendered |-> TRUE, store |-> "none"])
    ELSE LET r == retryInitialization(attempts, t) IN
         [filters |-> f, retryAttempts |-> r.retryAttempts, container |-> c,
          dropdown |-> d, timers |-> r.timers, threw |-> FALSE, log |-> r.log,
          rendered |-> FALSE, store |-> "none"]

\* lines 54-58 and 73-77: render when the search bar is there, else retry
RenderOrRetry(f, attempts, c, d, t, p) ==
    IF c.present
    THEN Once(initializeDropdown(f, c, d, p), LAMBDA r :
         [filters |-> f, retryAttempts |-> attempts, container |-> r.container,
          dropdown |-> r.dropdown, timers |-> t, threw |-> r.threw, log |-> {},
          rendered |-> TRUE, store |-> "none"])
    ELSE LET r == retryInitialization(attempts, t) IN
         [filters |-> f, retryAttempts |-> r.retryAttempts, container |-> c,
          dropdown |-> d, timers |-> r.timers, threw |-> FALSE, log |-> r.log,
          rendered |-> FALSE, store |-> "none"]

\* what a handler that loaded the filters did with the store
ReadOutcome(readFails) == IF readFails THEN "read-failed" ELSE "read"

\* mutant: the filters are loaded before the page is looked at
handleLocationChangeLoadFirst(f, st, c, d, t, p, readFails) ==
    LET ld == loadFilters(st, readFails) IN
    IF ~isPullRequestPage(p)
    THEN [filters |-> ld.val, retryAttempts |-> 0, container |-> c, dropdown |-> d,
          timers |-> t, threw |-> FALSE, log |-> {}, rendered |-> FALSE,
          store |-> ReadOutcome(readFails)]
    ELSE [RenderOrRetry(ld.val, 0, c, d, t, p) EXCEPT
            !.log = @ \cup (IF ld.log = "none" THEN {} ELSE {ld.log}),
            !.store = ReadOutcome(readFails)]

\* handleLocationChange()
handleLocationChange(f, st, c, d, t, p, readFails) ==
    IF ~isPullRequestPage(p)
    THEN [filters |-> f, retryAttempts |-> 0, container |-> c, dropdown |-> d,
          timers |-> t, threw |-> FALSE, log |-> {}, rendered |-> FALSE,
          store |-> "none"]
    ELSE LET ld == loadFilters(st, readFails)
             r == RenderOrRetry(ld.val, 0, c, d, t, p)
         IN  IF ld.threw
             THEN [filters |-> f, retryAttempts |-> 0, container |-> c,
                   dropdown |-> d, timers |-> t, threw |-> TRUE, log |-> {},
                   rendered |-> FALSE, store |-> ReadOutcome(readFails)]
             ELSE [r EXCEPT !.log = @ \cup (IF ld.log = "none" THEN {} ELSE {ld.log}),
                            !.store = ReadOutcome(readFails)]

----------------------------------------------------------------------------
(* Add-filter flow *)

\* mutant: the result is converted to a string, cancelled or not
promptAsyncString(result) == ToStr(result)

\* promptAsync(): resolve(result || ""); prompt() gives null when cancelled
promptAsync(result) == IF result.t = "null" THEN <<>> ELSE result.v

\* what the add flow leaves when it returns early: nothing is changed
AddNothing(f, st, c, d, prompted, log) ==
    [filters |-> f, stored |-> st, container |-> c, dropdown |-> d, log |-> log,
     prompted |-> prompted, store |-> "none", rendered |-> FALSE]

\* mutant: the list is saved before the new filter is pushed
PushSaveRenderSaveFirst(f, st, c, d, p, query, label, writeFails) ==
    LET f1 == JArr(Append(f.v, NewFilter(label, query)))
        sv == saveFilters(f, st, writeFails)
        r == initializeDropdown(f1, c, d, p)
    IN  [filters |-> f1, stored |-> sv.stored, container |-> r.container,
         dropdown |-> r.dropdown,
         log |-> (IF sv.log = "none" THEN {} ELSE {sv.log})
                 \cup (IF r.threw THEN {"error-add"} ELSE {}),
         prompted |-> TRUE,
         store |-> IF writeFails THEN "write-failed" ELSE "written",
         rendered |-> TRUE]

\* lines 122-127, inside addNewFilter's try: push, save, render again.  push
\* throws when this.filters is no array; an exception is caught and logged.
PushSaveRender(f, st, c, d, p, query, label, writeFails) ==
    IF f.t # "arr" THEN AddNothing(f, st, c, d, TRUE, {"error-add"})
    ELSE LET f1 == JArr(Append(f.v, NewFilter(label, query)))
             sv == saveFilters(f1, st, writeFails)
             r == initializeDropdown(f1, c, d, p)
         IN  IF sv.threw
             THEN [AddNothing(f1, sv.stored, c, d, TRUE, {"error-add"})
                      EXCEPT !.store = "write-failed"]
             ELSE [filters |-> f1, stored |-> sv.stored,
                   container |-> r.container, dropdown |-> r.dropdown,
                   log |-> (IF sv.log = "none" THEN {} ELSE {sv.log})
                           \cup (IF r.threw THEN {"error-add"} ELSE {}),
                   prompted |-> TRUE,
                   store |-> IF writeFails THEN "write-failed" ELSE "written",
                   rendered |-> TRUE]

\* lines 119-127: the prompt, and what follows a label
PromptAndAdd(f, st, c, d, p, query, result, writeFails) ==
    LET label == promptAsync(result) IN
    IF label = <<>> THEN AddNothing(f, st, c, d, TRUE, {})
    ELSE PushSaveRender(f, st, c, d, p, query, label, writeFails)

\* mutant: the query is not looked at
addNewFilterAnyQuery(f, st, c, d, p, query, result, writeFails) ==
    PromptAndAdd(f, st, c, d, p, query, result, writeFails)

\* addNewFilter(query), with the prompt's result and the store's behaviour
addNewFilter(f, st, c, d, p, query, result, writeFails) ==
    IF query = <<>> THEN AddNothing(f, st, c, d, FALSE, {})
    ELSE PromptAndAdd(f, st, c, d, p, query, result, writeFails)

----------------------------------------------------------------------------
(* The environment's inputs *)

\* labels: one with a character JSON escapes, a plain one, one that is markup
LabelA == <<"\"", "A">>
LabelB == <<"B">>
LabelC == <<IOpenCustom, "C", IClose>>
\* the labels the user types into the prompt
Labels == {LabelA, LabelC}

QueryOpen == <<"is", ":", "open">>
Queries == {QueryOpen}

\* what prompt() returns: null (cancelled), the empty string, a label
PromptResults == {JNull, JStr(<<>>)} \cup {JStr(l) : l \in Labels}

\* the value of the search input
InputValues == Queries \cup {<<>>}

StoredABC ==
    Stringify(JArr(<<NewFilter(LabelA, QueryOpen), NewFilter(LabelB, QueryOpen),
                     NewFilter(LabelC, QueryOpen)>>))

\* what the store may hold when the script starts
InitStored ==
    { Missing,
      Stored(SubSeq(StoredABC, 1, Len(StoredABC) - 3)),
      Stored(<<"null">>),
      Stored(<<"0">>),
      Stored(StoredABC) }

NoContainer == [present |-> FALSE, buttons |-> 0]
FreshContainer == [present |-> TRUE, buttons |-> 0]
NoDropdown == [present |-> FALSE, kids |-> <<>>]
FreshDropdown == [present |-> TRUE, kids |-> <<HostItem>>]

\* the record of a handler's run: the handler, whether an exception left
\* it, the diagnostics it logged, whether it called initializeDropdown, what
\* it did with the store, and for a click the input's value, whether the
\* prompt was shown and what it returned
Event(op, threw, log, rendered, store) ==
    [op |-> op, threw |-> threw, log |-> log, rendered |-> rendered,
     store |-> store, prompted |-> FALSE, query |-> <<>>, result |-> JNull]

HostEvent == Event("host", FALSE, {}, FALSE, "none")

WithinBounds(c, t) ==
    /\ c.buttons <= MaxButtons
    /\ t <= MaxTimers

----------------------------------------------------------------------------
(* The state machine *)

\* new GitHubPRFilter(): lines 10-19
Init ==
    \E st \in InitStored, p \in Paths, c \in {NoContainer, FreshContainer},
       d \in {NoDropdown, FreshDropdown} :
        \E r \in {handleLocationChange(JArr(<<>>), st, c, d, 0, p, FALSE)} :
        /\ filters = r.filters
        /\ retryAttempts = r.retryAttempts
        /\ stored = st
        /\ path = p
        /\ container = r.container
        /\ dropdown = r.dropdown
        /\ timers = r.timers
        /\ ev = Event("init", r.threw, r.log, r.rendered, r.store)
        /\ rechecks = 0

\* a navigation trigger: the mutation observer, popstate or turbo:render.
\* The store gives the entry back (a read that throws is applied to
\* loadFilters in SpecStore; for the handler it is a parse that throws).
LocationChange ==
    \E r \in {handleLocationChange(filters, stored, container, dropdown, timers,
                                  path, FALSE)} :
    /\ WithinBounds(r.container, r.timers)
    /\ filters' = r.filters
    /\ retryAttempts' = r.retryAttempts
    /\ container' = r.container
    /\ dropdown' = r.dropdown
    /\ timers' = r.timers
    /\ ev' = Event("nav", r.threw, r.log, r.rendered, r.store)
    /\ rechecks' = 0
    /\ UNCHANGED <<stored, path>>

\* a setTimeout callback of retryInitialization runs: lines 72-78
TimerFire ==
    /\ timers > 0
    /\ \E r \in {RenderOrRetry(filters, retryAttempts, container, dropdown,
                              timers - 1, path)} :
        /\ WithinBounds(r.container, r.timers)
        /\ retryAttempts' = r.retryAttempts
        /\ container' = r.container
        /\ dropdown' = r.dropdown
        /\ timers' = r.timers
        /\ ev' = Event("timer", r.threw, r.log, r.rendered, "none")
    /\ rechecks' = IF rechecks < MaxRechecks THEN rechecks + 1 ELSE rechecks
    /\ UNCHANGED <<filters, stored, path>>

\* a click on an injected button whose search input is there: lines 171-174
\* and addNewFilter.  The continuation after the await is a microtask: it
\* runs before any other handler.  Filters are added while the list is
\* shorter than maxFilters.
AddClick(maxFilters) ==
    /\ container.present /\ container.buttons > 0
    /\ \E query \in InputValues, result \in PromptResults, writeFails \in BOOLEAN :
        \E r \in {addNewFilter(filters, stored, container, dropdown, path,
                              query, result, writeFails)} :
        /\ WithinBounds(r.container, timers)
        /\ r.filters # filters => Len(filters.v) < maxFilters
        /\ filters' = r.filters
        /\ stored' = r.stored
        /\ container' = r.container
        /\ dropdown' = r.dropdown
        /\ ev' = [op |-> "click", threw |-> FALSE, log |-> r.log,
                  rendered |-> r.rendered, prompted |-> r.prompted,
                  store |-> r.store, query |-> query,
                  result |-> IF r.prompted THEN result ELSE JNull]
    /\ UNCHANGED <<retryAttempts, path, timers, rechecks>>

\* a click while the page has no search input: input.value throws in the
\* listener, outside addNewFilter's try
AddClickNoInput ==
    /\ container.present /\ container.buttons > 0
    /\ ev' = Event("click", TRUE, {}, FALSE, "none")
    /\ UNCHANGED <<filters, retryAttempts, stored, path, container, dropdown,
                 timers, rechecks>>

\* the host page moves to another location
HostNavigate ==
    /\ \E p \in Paths \ {path} : path' = p
    /\ ev' = HostEvent
    /\ UNCHANGED <<filters, retryAttempts, stored, container, dropdown, timers,
                 rechecks>>

\* the host page removes the search bar, or puts in a new one
HostContainer ==
    /\ container' = IF container.present THEN NoContainer ELSE FreshContainer
    /\ ev' = HostEvent
    /\ UNCHANGED <<filters, retryAttempts, stored, path, dropdown, timers, rechecks>>

\* the host page removes the filter menu, or puts in a new one
HostDropdown ==
    /\ dropdown' = IF dropdown.present THEN NoDropdown ELSE FreshDropdown
    /\ ev' = HostEvent
    /\ UNCHANGED <<filters, retryAttempts, stored, path, container, timers, rechecks>>

Next ==
    \/ LocationChange
    \/ TimerFire
    \/ AddClick(MaxFilters)
    \/ AddClickNoInput
    \/ HostNavigate
    \/ HostContainer
    \/ HostDropdown

Spec == Init /\ [][Next]_vars

----------------------------------------------------------------------------
(* The add flow on a pull-request page whose mount points are there *)

InitAdd ==
    \E st \in InitStored :
        \E r \in {handleLocationChange(JArr(<<>>), st, FreshContainer, FreshDropdown,
                                      0, PathPulls, FALSE)} :
        /\ filters = r.filters
        /\ retryAttempts = r.retryAttempts
        /\ stored = st
        /\ path = PathPulls
        /\ container = r.container
        /\ dropdown = r.dropdown
        /\ timers = r.timers
        /\ ev = Event("init", r.threw, r.log, r.rendered, r.store)
        /\ rechecks = 0

\* the host page renders the search bar and the filter menu anew
HostRefresh ==
    /\ container' = FreshContainer
    /\ dropdown' = FreshDropdown
    /\ ev' = HostEvent
    /\ UNCHANGED <<filters, retryAttempts, stored, path, timers, rechecks>>

NextAdd ==
    \/ AddClick(MaxAddFilters)
    \/ AddClickNoInput
    \/ LocationChange
    \/ HostRefresh

SpecAdd == InitAdd /\ [][NextAdd]_vars

----------------------------------------------------------------------------
(* The persistence layer on its own: saveFilters and loadFilters applied to
   any list of filters and any content of the store *)

MaxSeq == 2

AllFilters == {NewFilter(l, q) : l \in {LabelA, LabelB, LabelC}, q \in Queries}

FilterSeqs == UNION {[1..n -> AllFilters] : n \in 0..MaxSeq}

\* nothing, the empty string, null, a number, and every truncation of a
\* stored list
StoreTexts ==
    {Missing, Stored(<<>>), Stored(<<"null">>), Stored(<<"0">>)}
    \cup {Stored(SubSeq(StoredABC, 1, n)) : n \in 1..Len(StoredABC)}

InitStore ==
    /\ filters \in {JArr(xs) : xs \in FilterSeqs}
    /\ stored \in StoreTexts
    /\ retryAttempts = 0
    /\ path = PathPulls
    /\ container = NoContainer
    /\ dropdown = NoDropdown
    /\ timers = 0
    /\ ev = Event("input", FALSE, {}, FALSE, "none")
    /\ rechecks = 0

StoreSave ==
    /\ \E writeFails \in BOOLEAN :
        \E r \in {saveFilters(filters, stored, writeFails)} :
        /\ stored' = r.stored
        /\ ev' = Event("save", r.threw, IF r.log = "none" THEN {} ELSE {r.log}, FALSE,
                       IF writeFails THEN "write-failed" ELSE "written")
    /\ UNCHANGED <<filters, retryAttempts, path, container, dropdown, timers, rechecks>>

StoreLoad ==
    /\ \E readFails \in BOOLEAN :
        \E r \in {loadFilters(stored, readFails)} :
        /\ filters' = r.val
        /\ ev' = Event("load", r.threw, IF r.log = "none" THEN {} ELSE {r.log}, FALSE,
                       ReadOutcome(readFails))
    /\ UNCHANGED <<stored, retryAttempts, path, container, dropdown, timers, rechecks>>

NextStore == StoreSave \/ StoreLoad

SpecStore == InitStore /\ [][NextStore]_vars

----------------------------------------------------------------------------
(* Properties *)

\* the injected filter items of the menu: its children of class custom-item
Injected(kids) == SelectSeq(kids, LAMBDA k : k.custom)

\* the items of the filters of an array, in stored order
ItemsOf(f, p) ==
    [i \in 1..Len(f.v) |->
        createFilterItem(GetProp(f.v[i], <<"label">>), GetProp(f.v[i], <<"query">>),
                         getRepoPath(p))]

\* a step in which initializeDropdown ran on a menu with nothing injected
\* in it, the filters being an array
C1_RenderStep ==
    /\ ev'.rendered
    /\ dropdown.present /\ ~HasCustom(dropdown.kids)
    /\ filters'.t = "arr"

\* C1 (as stated): after initializeDropdown runs on a menu with no injected
\* items, the injected items are in most-recently-added-first order, the
\* reverse of the stored order.
C1_MostRecentFirst ==
    [][C1_RenderStep =>
        Injected(dropdown'.kids) = Reverse(ItemsOf(filters', path))]_vars

\* C1 (amended): after initializeDropdown runs on a menu with no injected
\* items, the injected items are in stored order (oldest first), ahead of the
\* host page's items: reversing and then prepending one by one restores the
\* stored order.
C1_StoredOrder ==
    [][C1_RenderStep =>
        /\ Injected(dropdown'.kids) = ItemsOf(filters', path)
        /\ dropdown'.kids = ItemsOf(filters', path) \o dropdown.kids]_vars

\* the three stored filters A, B, C were rendered by a trigger or a re-check
C1_Witness ==
    /\ ev.op \in {"nav", "timer"} /\ ev.rendered /\ ~ev.threw
    /\ filters.t = "arr" /\ Len(filters.v) = 3
    /\ dropdown.present
    /\ Injected(dropdown.kids) = ItemsOf(filters, path)
    /\ ItemsOf(filters, path) # Reverse(ItemsOf(filters, path))

\* C2: initializeDropdown run twice in succession, the filter list and the
\* host DOM unchanged in between, leaves the same injected filter items as
\* run once.
C2_RenderIdempotent ==
    [][(ev.rendered /\ ev'.rendered /\ filters' = filters /\ path' = path
            /\ dropdown.present)
        => Injected(dropdown'.kids) = Injected(dropdown.kids)]_vars

C5_LoadRecovers ==
    [][(ev'.op = "load" /\ (~stored.has \/ JsonParse(stored.text).threw))
        => (filters' = JArr(<<>>) /\ ~ev'.threw /\ stored' = stored)]_vars

\* a truncated entry was loaded as the empty list, with a diagnostic
C5_Witness ==
    /\ ev.op = "load" /\ ev.store = "read" /\ ~ev.threw
    /\ stored.has /\ Len(stored.text) > 1 /\ JsonParse(stored.text).threw
    /\ filters = JArr(<<>>)
    /\ ev.log = {"error-load"}

\* a navigation trigger on a pull-request page, or a delayed re-check, that
\* finds no search bar
C4_AbsentStep ==
    /\ ~container.present
    /\ \/ ev'.op = "nav" /\ path \in {PathPulls, PathArchive}
       \/ ev'.op = "timer"

\* C4: while the search bar is absent at the trigger and at every re-check,
\* nothing is injected and no exception leaves a handler; the trigger and
\* each re-check below the maximum schedule one more re-check, and the
\* re-check that finds the counter at 3 warns and schedules nothing.
C4_AbsentMountPoint ==
    [][C4_AbsentStep =>
        /\ dropdown' = dropdown /\ container' = container
        /\ ~ev'.threw /\ ~ev'.rendered
        /\ ev'.op = "nav" =>
            (retryAttempts' = 1 /\ timers' = timers + 1 /\ "warn" \notin ev'.log)
        /\ (ev'.op = "timer" /\ retryAttempts < MAX_RETRY_ATTEMPTS) =>
            (retryAttempts' = retryAttempts + 1 /\ timers' = timers
                /\ "warn" \notin ev'.log)
        /\ (ev'.op = "timer" /\ retryAttempts >= MAX_RETRY_ATTEMPTS) =>
            (retryAttempts' = MAX_RETRY_ATTEMPTS /\ timers' = timers - 1 /\ "warn" \in ev'.log)]_vars

\* the last re-check found no search bar with the counter at 3: it warned,
\* no timer is pending and nothing is injected
C4_Witness ==
    /\ ev.op = "timer" /\ ev.log = {"warn"} /\ ~ev.threw
    /\ retryAttempts = MAX_RETRY_ATTEMPTS /\ timers = 0
    /\ ~container.present
    /\ ~HasCustom(dropdown.kids)

\* C6: the add flow started on an empty search input shows no prompt, writes
\* nothing to the store, leaves the in-memory list as it is and renders
\* nothing.
C6_EmptyQuery ==
    [][(ev'.op = "click" /\ ~ev'.threw /\ ev'.query = <<>>)
        => /\ ~ev'.prompted /\ ev'.store = "none" /\ ~ev'.rendered /\ ev'.log = {}
           /\ UNCHANGED <<filters, stored, container, dropdown>>]_vars

\* a click on an empty input came back at once, filters being stored
C6_Witness ==
    /\ ev.op = "click" /\ ~ev.threw /\ ev.query = <<>>
    /\ ~ev.prompted /\ ev.store = "none" /\ ~ev.rendered
    /\ filters.t = "arr" /\ Len(filters.v) > 0

\* a completed add: a query, a label, and a list to push to
C7_AddStep ==
    /\ ev'.op = "click" /\ ev'.query # <<>> /\ ev'.prompted
    /\ promptAsync(ev'.result) # <<>>
    /\ filters.t = "arr"

C7_Appended ==
    filters' = JArr(Append(filters.v, NewFilter(promptAsync(ev'.result), ev'.query)))

C7_PersistedIsList ==
    stored'.has /\ JsonParse(stored'.text) = [threw |-> FALSE, val |-> filters']

\* C7 (as stated): after an add with a query and a label the in-memory list
\* is the list before with the new filter at its end, and the persisted
\* value decodes to that list.
C7_AddPersistsAlways ==
    [][C7_AddStep => (C7_Appended /\ C7_PersistedIsList)]_vars

\* C7 (amended): after an add with a query and a label the in-memory list is
\* the list before with the new filter at its end; the persisted value
\* decodes to that list when the store accepted the write, and is what it
\* was when the write failed.
C7_AddPersists ==
    [][C7_AddStep =>
        /\ C7_Appended
        /\ ev'.store \in {"written", "write-failed"}
        /\ ev'.store = "written" => C7_PersistedIsList
        /\ ev'.store = "write-failed" => stored' = stored]_vars

\* a filter equal to the one before it was added to a list of two and saved
C7_Witness ==
    /\ ev.op = "click" /\ ev.store = "written"
    /\ filters.t = "arr" /\ Len(filters.v) = 3
    /\ filters.v[3] = NewFilter(promptAsync(ev.result), ev.query)
    /\ filters.v[3] = filters.v[2] /\ filters.v[1] # filters.v[2]
    /\ JsonParse(stored.text) = [threw |-> FALSE, val |-> filters]

\* C8: when the write fails during saveFilters the persisted value is left
\* as it was, saveFilters logs a diagnostic, and no exception leaves
\* saveFilters (the add flow goes on to render) or the add flow.
C8_WriteFailure ==
    [][(ev'.op = "click" /\ ev'.store = "write-failed")
        => /\ stored' = stored
           /\ "error-save" \in ev'.log
           /\ ~ev'.threw
           /\ ev'.rendered]_vars

\* a write failed: the list in memory has the new filter, the store has not
C8_Witness ==
    /\ ev.op = "click" /\ ev.store = "write-failed" /\ ev.log = {"error-save"}
    /\ ~ev.threw /\ ev.rendered
    /\ filters.t = "arr" /\ Len(filters.v) > 0
    /\ stored # Stored(Stringify(filters))

\* C9: when the prompt is cancelled or left empty, the in-memory list, the
\* persisted value and the injected DOM are unchanged, silently.
C9_NoLabel ==
    [][(ev'.op = "click" /\ ev'.query # <<>> /\ ev'.result \in {JNull, JStr(<<>>)})
        => /\ UNCHANGED <<filters, stored, container, dropdown>>
           /\ ev'.prompted /\ ev'.store = "none" /\ ~ev'.rendered
           /\ ev'.log = {} /\ ~ev'.threw]_vars

\* the prompt was cancelled
C9_Witness ==
    /\ ev.op = "click" /\ ev.query # <<>> /\ ev.prompted /\ ev.result = JNull
    /\ ev.store = "none" /\ ~ev.rendered /\ ev.log = {}

\* C10: a navigation trigger away from a pull-request listing resets the
\* retry counter and changes nothing else: no load, no write, no DOM change,
\* no timer, no error.
C10_NotPullRequestPage ==
    [][(ev'.op = "nav" /\ ~isPullRequestPage(path))
        => /\ retryAttempts' = 0
           /\ UNCHANGED <<filters, stored, container, dropdown, timers>>
           /\ ev'.store = "none" /\ ~ev'.rendered /\ ev'.log = {} /\ ~ev'.threw]_vars

\* a trigger on the issues page: the counter is back at 0 while a re-check
\* is still pending, and the list in memory is not what a load would give
C10_Witness ==
    /\ ev.op = "nav" /\ path = PathIssues
    /\ retryAttempts = 0 /\ timers > 0
    /\ ev.store = "none"
    /\ ~stored.has /\ filters # JArr(<<>>)

\* the check icon of an item
SvgElem == Elem("svg", FALSE, <<>>, <<>>, <<>>)

\* C11: the rendered item shows the label as plain text: its text is the
\* label, and the label adds no element to the item (the check icon is the
\* item's only child).
C11_LabelIsText ==
    [][(C1_RenderStep /\ ~ev'.threw) =>
        \A i \in 1..Len(filters'.v) :
            /\ i <= Len(Injected(dropdown'.kids))
            /\ Injected(dropdown'.kids)[i].text
                    = ToStr(GetProp(filters'.v[i], <<"label">>))
            /\ Injected(dropdown'.kids)[i].kids = <<SvgElem>>]_vars

----------------------------------------------------------------------------
(* The page test over paths that hold, nearly hold and do not hold "/pulls" *)

PathHeads == { <<"/", "o">>, <<"/", "o", "/", "r">>, <<"/", "o", "/", "r", "/", "x">> }

PathMiddles ==
    { <<"/", "p", "u", "l", "l", "s">>, <<"/", "p", "u", "l", "l">>,
      <<"p", "u", "l", "l", "s">>, <<"/", "P", "u", "l", "l", "s">>,
      <<"/", "p", "u", "l", "/", "l", "s">>,
      <<"/", "i", "s", "s", "u", "e", "s">> }

PathTails ==
    { <<>>, <<"s">>, <<"/", "1">>, <<"-", "a", "r", "c", "h", "i", "v", "e">> }

PathCases == { h \o m \o t : h \in PathHeads, m \in PathMiddles, t \in PathTails }

InitPath ==
    \E p \in PathCases, c \in {NoContainer, FreshContainer} :
        \E r \in {handleLocationChange(JArr(<<>>), Missing, c, FreshDropdown, 0, p, FALSE)} :
        /\ filters = r.filters
        /\ retryAttempts = r.retryAttempts
        /\ stored = Missing
        /\ path = p
        /\ container = r.container
        /\ dropdown = r.dropdown
        /\ timers = r.timers
        /\ ev = Event("init", r.threw, r.log, r.rendered, r.store)
        /\ rechecks = 0

\* the host page moves to any of the paths
HostGoto ==
    /\ \E p \in PathCases \ {path} : path' = p
    /\ ev' = HostEvent
    /\ UNCHANGED <<filters, retryAttempts, stored, container, dropdown, timers,
                 rechecks>>

NextPath ==
    \/ LocationChange
    \/ HostGoto

SpecPath == InitPath /\ [][NextPath]_vars

\* the path holds the characters / p u l l s one after the other
ContainsPulls(p) ==
    \E i \in 1..Len(p) :
        /\ i + 5 <= Len(p)
        /\ p[i] = "/" /\ p[i + 1] = "p" /\ p[i + 2] = "u"
        /\ p[i + 3] = "l" /\ p[i + 4] = "l" /\ p[i + 5] = "s"

\* C12: isPullRequestPage is true exactly when the path holds the substring
\* "/pulls" anywhere, and a trigger goes on to load the filters exactly then:
\* true for /o/r/pulls and /o/r/pulls-archive, false for /o/r/issues.
C12_SubstringTest ==
    [][ev'.op = "nav" =>
        /\ isPullRequestPage(path) <=> ContainsPulls(path)
        /\ (ev'.store = "read") <=> ContainsPulls(path)
        /\ path = PathPulls => ev'.store = "read"
        /\ path = PathArchive => ev'.store = "read"
        /\ path = PathIssues => ev'.store = "none"]_vars

\* a trigger on /o/r/pulls-archive loaded the filters
C12_Witness ==
    /\ ev.op = "nav" /\ path = PathArchive
    /\ ev.store = "read"

----------------------------------------------------------------------------

\* C13: no exception escapes construction, a navigation trigger's handler, a
\* retry callback or the click handler, whatever the store holds and
\* whichever mount points and input are there.
C13_NothingFatal == ~ev.threw

\* C14: the search bar holds at most one injected add-filter button, however
\* many renders ran against it.
C14_OneButton == container.buttons <= 1

\* C15 (its last sentence): a render by a trigger or a re-check that aborts
\* because the filter menu is absent is followed by a retry while attempts
\* remain: a re-check is scheduled by it.
C15_AbortIsRetried ==
    [][(/\ ev'.op \in {"nav", "timer"} /\ ev'.rendered /\ ~ev'.threw
        /\ ~dropdown.present
        /\ retryAttempts' < MAX_RETRY_ATTEMPTS)
        => timers' > (IF ev'.op = "timer" THEN timers - 1 ELSE timers)]_vars

\* C16: between one navigation trigger and the next at most 3 re-check
\* callbacks run, and the retry counter stays within 0..3.
C16_BoundedRetry ==
    /\ rechecks <= MAX_RETRY_ATTEMPTS
    /\ retryAttempts \in 0..MAX_RETRY_ATTEMPTS

\* C17: no render by a trigger or a re-check injects items or appends the
\* button while the location is not a pull-request listing page.
C17_RenderOnlyOnPulls ==
    [][(/\ ev'.op \in {"nav", "timer"} /\ ev'.rendered
        /\ container'.buttons > container.buttons)
        => isPullRequestPage(path')]_vars

----------------------------------------------------------------------------
(* Retrying, with timers that do fire *)

\* a navigation trigger, taken while every pending callback that may render
\* still has room for its button below the bound
TriggerWithRoom ==
    /\ LocationChange
    /\ container'.buttons + timers' <= MaxButtons

NextRetry ==
    \/ TriggerWithRoom
    \/ TimerFire
    \/ HostNavigate
    \/ HostContainer
    \/ HostDropdown

\* a scheduled setTimeout callback is run by the browser after its delay
SpecRetry == Init /\ [][NextRetry]_vars /\ WF_vars(TimerFire)

\* C18: if navigation triggers stop occurring, then with timers that fire
\* the system reaches a state with no pending retry callback and stays
\* there; no step other than a trigger schedules a callback that was not
\* pending before.
C18_RetryTerminates ==
    /\ (<>[][ev'.op # "nav"]_vars) => <>[](timers = 0)
    /\ [][ev'.op # "nav" => timers' <= timers]_vars

\* two chains have ended: the last callback warned and none is pending
C18_Witness ==
    /\ ev.op = "timer" /\ "warn" \in ev.log
    /\ timers = 0 /\ rechecks > MAX_RETRY_ATTEMPTS

----------------------------------------------------------------------------

\* C19: a navigation trigger leaves every pending retry callback pending;
\* a callback that fires later, a stale one included, looks at the DOM as it
\* then is and renders exactly if the search bar is there, with the list in
\* memory: it loads nothing and leaves the list and the store alone.
C19_StaleCallback ==
    [][/\ ev'.op = "nav" => timers' >= timers
       /\ ev'.op = "timer" =>
            /\ filters' = filters /\ stored' = stored /\ ev'.store = "none"
            /\ ev'.rendered <=> container.present
            /\ ~container.present => dropdown' = dropdown
            /\ (container.present /\ dropdown.present /\ ~ev'.threw
                    /\ filters.t = "arr")
                => /\ Injected(dropdown'.kids) = ItemsOf(filters, path)
                   /\ container'.buttons = container.buttons + 1]_vars

\* more callbacks than one chain has ran since the last trigger, and the
\* last of them rendered the stored filters
C19_Witness ==
    /\ ev.op = "timer" /\ ev.rendered /\ ~ev.threw
    /\ rechecks > MAX_RETRY_ATTEMPTS
    /\ filters.t = "arr" /\ filters.v # <<>>
    /\ dropdown.present /\ Injected(dropdown.kids) = ItemsOf(filters, path)

----------------------------------------------------------------------------
(* initializeDropdown on its own: any list, either mount point there or not *)

InitRender ==
    /\ filters \in {JArr(xs) : xs \in FilterSeqs}
    /\ container \in {NoContainer, FreshContainer}
    /\ dropdown \in {NoDropdown, FreshDropdown}
    /\ retryAttempts = 0
    /\ stored = Missing
    /\ path = PathPulls
    /\ timers = 0
    /\ rechecks = 0
    /\ ev = Event("input", FALSE, {}, FALSE, "none")

\* a call of initializeDropdown(); the record notes whether the menu held
\* injected items when it was called
Render ==
    /\ \E r \in {initializeDropdown(filters, container, dropdown, path)} :
        /\ WithinBounds(r.container, timers)
        /\ container' = r.container
        /\ dropdown' = r.dropdown
        /\ ev' = Event("render", r.threw,
                       IF HasCustom(dropdown.kids) THEN {"had-items"} ELSE {},
                       TRUE, "none")
    /\ UNCHANGED <<filters, retryAttempts, stored, path, timers, rechecks>>

NextRender ==
    \/ Render
    \/ HostContainer
    \/ HostDropdown

SpecRender == InitRender /\ [][NextRender]_vars

\* the host page's own items of the menu
HostItems(kids) == SelectSeq(kids, LAMBDA k : ~k.custom)

====
